---- MODULE Spec2Model ----
(***************************************************************************)
(* State-machine models of the MCP clients of the merchant health          *)
(* dashboard backend:                                                      *)
(*   - MCPClientService        (services/mcp-client.service.ts)            *)
(*   - CoraLogixMCPConnection  (mcp/mcpConnect, subprocess + EventEmitter) *)
(*   - CoralogixMCPClient      (mcp/coralogix-mcp.ts, over the MCP SDK)    *)
(* Each has its own specifications; the variables of the other clients     *)
(* stay as Init leaves them.                                               *)
(* Every action is one run-to-completion step of the Node.js event loop:   *)
(* a public call up to its first await, an I/O or timer callback, or the   *)
(* continuation of an await (a microtask).  Continuations run in the order *)
(* in which their promises were settled and before the next I/O or timer   *)
(* callback, which the guard NoMicrotasks states.                          *)
(***************************************************************************)
EXTENDS Integers, Sequences, FiniteSets, TLC

\* ------------------------------------------------------------------ bounds
MaxRequests == 2     \* ids getNextRequestId may hand out in one run
MaxRaceRequests == 3 \* the same in SvcRaceSpec, where calls overlap
MaxProcs    == 2     \* subprocesses spawn() may create in one run
MaxData     == 2     \* response lines the subprocesses write in one run
MaxConnCalls == 2    \* calls of CoraLogixMCPConnection.initialize() and
                     \* sendMCPRequest() in one run
MaxWireLines == 2    \* response lines its subprocess writes in one run when
                     \* the chunks of stdout are cut freely
MaxCliCalls == 2     \* calls of CoralogixMCPClient's methods in one run
MaxCliRaceCalls == 3 \* the same in CliRaceSpec
MaxInFlight == 2     \* calls in progress together in CliRaceSpec
MaxStderr == 2       \* stderr chunks whose text is followed (ConnStderrSpec)
MaxFaults == 1       \* failures in one run.  CoraLogixMCPConnection: timers
                     \* that fire, 'error' events, stderr error signals,
                     \* error responses.  CoralogixMCPClient: SDK calls that
                     \* reject

\* `process: ChildProcess | null = null`: 0 stands for null, q >= 1 for the
\* q-th subprocess spawned.
NoProcess == 0

\* ------------------------------------------------------------ wire format
\* A chunk of stdout text is a sequence of tokens.  JSON.stringify of a
\* response {"jsonrpc":"2.0","id":<id>,"result"|"error":...} is the four
\* tokens "{", <id>, "r" or "e", "}"; "\n" is the line terminator and "x"
\* stands for text that is not JSON.
IdTok(n) == ToString(n)

Line(idTok, kind) == <<"{", idTok, kind, "}">>

NL == <<"\n">>

\* String.prototype.split('\n'): the pieces between the terminators,
\* empty pieces included.
RECURSIVE SplitNL(_)
SplitNL(s) ==
  IF \A i \in 1..Len(s) : s[i] # "\n"
  THEN <<s>>
  ELSE LET k == CHOOSE i \in 1..Len(s) :
                  s[i] = "\n" /\ \A j \in 1..(i-1) : s[j] # "\n"
       IN <<SubSeq(s, 1, k-1)>> \o SplitNL(SubSeq(s, k+1, Len(s)))

\* String.prototype.trim(): the tokens here carry no blanks but "\n".
RECURSIVE Trim(_)
Trim(s) ==
  IF s = <<>> THEN s
  ELSE IF Head(s) = "\n" THEN Trim(Tail(s))
  ELSE IF s[Len(s)] = "\n" THEN Trim(SubSeq(s, 1, Len(s)-1))
  ELSE s

\* .filter(line => line.trim())
NonBlank(lines) == SelectSeq(lines, LAMBDA l : Trim(l) # <<>>)

\* JSON.parse: succeeds on exactly one complete object (white space around
\* it is allowed), throws on anything else.
ParseOk(s) ==
  LET t == Trim(s) IN
  /\ Len(t) = 4
  /\ t[1] = "{" /\ t[4] = "}"
  /\ t[3] \in {"r", "e"}
  /\ t[2] \notin {"{", "}", "r", "e", "x", "\n"}

Parsed(s) ==
  LET t == Trim(s) IN [id |-> t[2], error |-> (t[3] = "e")]

\* String.prototype.includes, on words.
includes(words, pattern) ==
  \E i \in 1..Len(words) :
    /\ i + Len(pattern) - 1 <= Len(words)
    /\ SubSeq(words, i, i + Len(pattern) - 1) = pattern

\* ------------------------------------------------- MCPClientService state
VARIABLES
  process,          \* this.process
  isConnected,      \* this.isConnected
  requestId,        \* this.requestId
  pendingRequests,  \* this.pendingRequests: id -> promise (its resolve/reject)
  timers,           \* promises whose setTimeout is armed
  promises,         \* every promise sendRequest created, in creation order
  microtasks,       \* settled promises whose await has not resumed yet
  procState,        \* subprocess q: "none", "running", "killed", "exited"
  inbox,            \* subprocess q: the request ids written to its stdin
  nData,            \* response lines the subprocesses have written so far
  wire,             \* subprocess q: text written to stdout, not yet delivered
  lineBuf           \* subprocess q: text delivered since the last line end

svcVars == <<process, isConnected, requestId, pendingRequests, timers,
             promises, microtasks, procState, inbox, nData, wire, lineBuf>>

\* --------------------------------------------- CoraLogixMCPConnection state
VARIABLES
  proc,             \* this.proc: NoProcess or 1, the subprocess connect() spawned
  procStatus,       \* that subprocess: "running", "killed", "closed"
  isInitialized,    \* this.isInitialized
  availableTools,   \* this.availableTools: 0 ([]) or the "tools_1" request
                    \* whose result it was assigned from
  dataprimeDocs,    \* this.dataprimeDocs: "" or "docs"
  requests,         \* every promise of sendRawRequest/sendMCPRequest, in order
  connTasks,        \* settled requests whose await has not resumed yet
  unanswered,       \* requests on the subprocess's stdin it has not answered
  connFaults,       \* the failures so far (see MaxFaults)
  connLines,        \* the response lines written so far (see MaxWireLines)
  connWire,         \* text written to stdout, not yet delivered
  connLineBuf,      \* text delivered since the last line end
  initReturned,     \* calls of initialize() that returned at its first line
  stderrLog         \* the stderr chunks delivered, where their text is followed

connVars == <<proc, procStatus, isInitialized, availableTools, dataprimeDocs,
              requests, connTasks, unanswered, connFaults, connLines,
              connWire,
              connLineBuf, initReturned, stderrLog>>

\* ------------------------------------------------- CoralogixMCPClient state
VARIABLES
  mcpClient,           \* this.mcpClient: 0 for null, k for the k-th SDK Client
  transport,           \* this.transport: 0 for null, k for the k-th transport
  cliIsInitialized,    \* this.isInitialized
  cliAvailableTools,   \* this.availableTools: 0 ([]) or the call whose
                       \* listTools() result it was assigned from
  cliDataprimeDocs,    \* this.dataprimeDocs: "" or "docs"
  clients,             \* the SDK Client objects constructed so far
  tasks,               \* the calls of its async methods, in call order
  cliFaults            \* the SDK calls rejected so far (see MaxFaults)

cliVars == <<mcpClient, transport, cliIsInitialized, cliAvailableTools,
             cliDataprimeDocs, clients, tasks, cliFaults>>

vars == <<svcVars, connVars, cliVars>>

\* What the actions of one client leave alone: the other clients.
notSvc == <<connVars, cliVars>>

notConn == <<svcVars, cliVars>>

notCli == <<svcVars, connVars>>

Procs == 1..MaxProcs

\* Map helpers for pendingRequests (a function with a finite domain).
MapPut(m, k, v) == [x \in DOMAIN m \cup {k} |-> IF x = k THEN v ELSE m[x]]
MapDel(m, k) == [x \in DOMAIN m \ {k} |-> m[x]]
EmptyMap == [x \in {} |-> 0]

\* The state after construction.  MCPClientService: the field initialisers.
\* CoraLogixMCPConnection: as getConnectionObject() returns it, constructed
\* and connect() called, so the subprocess is spawned.
Init ==
  /\ process = NoProcess
  /\ isConnected = FALSE
  /\ requestId = 0
  /\ pendingRequests = EmptyMap
  /\ timers = {}
  /\ promises = <<>>
  /\ microtasks = <<>>
  /\ procState = [q \in Procs |-> "none"]
  /\ inbox = [q \in Procs |-> {}]
  /\ nData = 0
  /\ wire = [q \in Procs |-> <<>>]
  /\ lineBuf = [q \in Procs |-> <<>>]
  /\ proc = 1
  /\ procStatus = "running"
  /\ isInitialized = FALSE
  /\ availableTools = 0
  /\ dataprimeDocs = ""
  /\ requests = <<>>
  /\ connTasks = <<>>
  /\ unanswered = {}
  /\ connFaults = 0
  /\ connLines = 0
  /\ connWire = <<>>
  /\ connLineBuf = <<>>
  /\ initReturned = 0
  /\ stderrLog = <<>>
  /\ mcpClient = 0
  /\ transport = 0
  /\ cliIsInitialized = FALSE
  /\ cliAvailableTools = 0
  /\ cliDataprimeDocs = ""
  /\ clients = 0
  /\ tasks = <<>>
  /\ cliFaults = 0

\* ------------------------------------------------------ promises (model)
\* One record per promise sendRequest returned.  `cont` names the await
\* that waits for it: "connect" (connect() called directly), "eq_connect"
\* (connect() awaited inside executeQuery) or "eq_call" (executeQuery's
\* tools/call).  `settles` counts the calls of its resolve/reject, `removes`
\* the removals of its pendingRequests entry, `answered` that a complete response line carrying its id has been
\* received on stdout (in one chunk or in several).
NewPromise(id, method, cont, state, by) ==
  [id |-> id, method |-> method, cont |-> cont, state |-> state, by |-> by,
   respId |-> 0, settles |-> IF state = "pending" THEN 0 ELSE 1,
   removes |-> 0, answered |-> FALSE]

\* resolve()/reject() of promise p: only the first call decides the promise
\* and queues the continuation of its await.
Settle(st, p, state, by, respId) ==
  IF st.promises[p].state = "pending"
  THEN [st EXCEPT
          !.promises[p] = [@ EXCEPT !.state = state, !.by = by,
                                    !.respId = respId, !.settles = @ + 1],
          !.microtasks = Append(@, p)]
  ELSE [st EXCEPT !.promises[p].settles = @ + 1]

\* Map.delete(id): the promise whose entry goes is noted.
MapDelete(st, id) ==
  IF id \in DOMAIN st.pendingRequests
  THEN [st EXCEPT
          !.promises[st.pendingRequests[id]].removes = @ + 1,
          !.pendingRequests = MapDel(@, id)]
  ELSE st

clearTimeout(st, p) == [st EXCEPT !.timers = @ \ {p}]

MapRange(m) == {m[k] : k \in DOMAIN m}

Promises == 1..Len(promises)

\* The correlator's part of the state, as one value that the operators
\* below transform; Commit writes it back.
St ==
  [pendingRequests |-> pendingRequests, timers |-> timers,
   promises |-> promises, microtasks |-> microtasks, inbox |-> inbox]

Commit(st) ==
  /\ pendingRequests' = st.pendingRequests
  /\ timers' = st.timers
  /\ promises' = st.promises
  /\ microtasks' = st.microtasks
  /\ inbox' = st.inbox

\* No await continuation is waiting to run: I/O callbacks, timers and new
\* calls from outside run only then.
NoMicrotasks == microtasks = <<>>

\* ----------------------------------------------- MCPClientService methods
\* getNextRequestId as it would be if the incremented counter were not
\* stored (`return this.requestId + 1`): every call returns 1.
getNextRequestId_noStore(r) == 1

getNextRequestId(r) == r + 1

\* sendRequest as it would be without its setTimeout.
\* sendRequest without its first test: the entry and the timer are set
\* whatever this.process is.
sendRequest_noGuard(st, procNow, id, method, cont) ==
  LET p == Len(st.promises) + 1 IN
  [st EXCEPT
     !.timers = @ \cup {p},
     !.pendingRequests = MapPut(@, id, p),
     !.promises = Append(@, NewPromise(id, method, cont, "pending", "")),
     !.inbox = IF procNow = NoProcess THEN @
               ELSE [@ EXCEPT ![procNow] = @ \cup {id}]]

sendRequest_noTimer(st, procNow, id, method, cont) ==
  LET p == Len(st.promises) + 1 IN
  IF procNow = NoProcess
  THEN [st EXCEPT
          !.promises = Append(@, NewPromise(id, method, cont, "rejected",
                                            "MCP process not connected")),
          !.microtasks = Append(@, p)]
  ELSE [st EXCEPT
          !.pendingRequests = MapPut(@, id, p),
          !.promises = Append(@, NewPromise(id, method, cont, "pending", "")),
          !.inbox = [@ EXCEPT ![procNow] = @ \cup {id}]]

\* sendRequest: the promise executor.
sendRequest(st, procNow, id, method, cont) ==
  LET p == Len(st.promises) + 1 IN
  IF procNow = NoProcess
  THEN [st EXCEPT
          !.promises = Append(@, NewPromise(id, method, cont, "rejected",
                                            "MCP process not connected")),
          !.microtasks = Append(@, p)]
  ELSE [st EXCEPT
          !.timers = @ \cup {p},
          !.pendingRequests = MapPut(@, id, p),
          !.promises = Append(@, NewPromise(id, method, cont, "pending", "")),
          !.inbox = [@ EXCEPT ![procNow] = @ \cup {id}]]

\* The request id a response carries (JSON.parse gives back the number that
\* JSON.stringify wrote); 0 when the token is no id this service wrote.
IdOfTok(tok) ==
  IF \E n \in 1..(MaxRequests + MaxRaceRequests) : IdTok(n) = tok
  THEN CHOOSE n \in 1..(MaxRequests + MaxRaceRequests) : IdTok(n) = tok
  ELSE 0

\* handleResponse as it would be if responses were matched to the oldest
\* outstanding request instead of by id.
handleResponse_fifo(st, response) ==
  LET id == IdOfTok(response.id)
      keys == DOMAIN st.pendingRequests
  IN
  IF keys # {}
  THEN LET k == CHOOSE i \in keys : \A j \in keys : i <= j
           p == st.pendingRequests[k]
       IN Settle(MapDelete(clearTimeout(st, p), k), p,
                 IF response.error THEN "rejected" ELSE "resolved",
                 IF response.error THEN "remote error" ELSE "response", id)
  ELSE st

\* handleResponse as it would be without clearTimeout(pending.timeout).
handleResponse_keepTimer(st, response) ==
  LET id == IdOfTok(response.id) IN
  IF id \in DOMAIN st.pendingRequests
  THEN LET p == st.pendingRequests[id] IN
       Settle(MapDelete(st, id), p,
              IF response.error THEN "rejected" ELSE "resolved",
              IF response.error THEN "remote error" ELSE "response", id)
  ELSE st

handleResponse(st, response) ==
  LET id == IdOfTok(response.id) IN
  IF id \in DOMAIN st.pendingRequests
  THEN LET p == st.pendingRequests[id] IN
       IF response.error
       THEN Settle(MapDelete(clearTimeout(st, p), id), p, "rejected",
                   "remote error", id)
       ELSE Settle(MapDelete(clearTimeout(st, p), id), p, "resolved",
                   "response", id)
  ELSE st

\* The stdout 'data' handler: every non-blank line of this chunk is parsed
\* on its own; a line that does not parse is logged and dropped.
RECURSIVE HandleLines(_, _)
HandleLines(st, lines) ==
  IF lines = <<>> THEN st
  ELSE HandleLines(
         IF ParseOk(Head(lines))
         THEN handleResponse(st, Parsed(Head(lines)))
         ELSE st,
         Tail(lines))

onStdoutData(st, data) == HandleLines(st, NonBlank(SplitNL(data)))

SpawnedProcs == {q \in Procs : procState[q] # "none"}

\* Calls that will still take a request id when their current await ends.
IdsReserved ==
  Cardinality({p \in Promises :
                 /\ promises[p].cont = "eq_connect"
                 /\ \/ promises[p].state = "pending"
                    \/ \E i \in 1..Len(microtasks) : microtasks[i] = p})

IdsLeftOf(max, n) == requestId + IdsReserved + n <= max

IdsLeft(n) == IdsLeftOf(MaxRequests, n)

\* connect() from `spawn` to `await this.initialize()`.
ConnectBody(cont) ==
  LET q == Cardinality(SpawnedProcs) + 1
      id == getNextRequestId(requestId)
  IN /\ Cardinality(SpawnedProcs) < MaxProcs
     /\ procState' = [procState EXCEPT ![q] = "running"]
     /\ process' = q
     /\ requestId' = id
     /\ Commit(sendRequest(St, q, id, "initialize", cont))
     /\ UNCHANGED <<isConnected, nData, wire, lineBuf>>

\* connect(), while at most `max` ids are in use.
ConnectWithin(max) ==
  /\ NoMicrotasks
  /\ UNCHANGED notSvc
  /\ IF isConnected
     THEN UNCHANGED svcVars
     ELSE IdsLeftOf(max, 1) /\ ConnectBody("connect")

Connect == ConnectWithin(MaxRequests)

\* executeQuery() up to its first await, while at most `max` ids are in
\* use.
ExecuteQueryWithin(max) ==
  /\ NoMicrotasks
  /\ UNCHANGED notSvc
  /\ IF ~isConnected
     THEN IdsLeftOf(max, 2) /\ ConnectBody("eq_connect")
     ELSE LET id == getNextRequestId(requestId) IN
          /\ IdsLeftOf(max, 1)
          /\ requestId' = id
          /\ Commit(sendRequest(St, process, id, "tools/call", "eq_call"))
          /\ UNCHANGED <<process, isConnected, procState, nData, wire, lineBuf>>

ExecuteQuery == ExecuteQueryWithin(MaxRequests)

\* The continuation of the await on the promise settled first.
Resume ==
  LET p == Head(microtasks)
      rest == [St EXCEPT !.microtasks = Tail(@)]
      ok == promises[p].state = "resolved"
      id == getNextRequestId(requestId)
  IN /\ microtasks # <<>>
     /\ UNCHANGED notSvc
     /\ isConnected' =
          IF ok /\ promises[p].cont \in {"connect", "eq_connect"}
          THEN TRUE ELSE isConnected
     /\ IF ok /\ promises[p].cont = "eq_connect"
        THEN /\ requestId' = id
             /\ Commit(sendRequest(rest, process, id, "tools/call", "eq_call"))
        ELSE /\ requestId' = requestId
             /\ Commit(rest)
     /\ UNCHANGED <<process, procState, nData, wire, lineBuf>>

\* The setTimeout callback of promise p's request.
Timeout(p) ==
  /\ NoMicrotasks
  /\ p \in timers
  /\ UNCHANGED notSvc
  /\ Commit(Settle(MapDelete([St EXCEPT !.timers = @ \ {p}], promises[p].id),
                   p, "rejected", "MCP request timeout", 0))
  /\ UNCHANGED <<process, isConnected, requestId, procState, nData, wire,
                 lineBuf>>

\* The loop of disconnect() over the entries, in the Map's insertion order:
\* the ids ascend.
RECURSIVE RejectAll(_, _, _)
RejectAll(st, ids, clear) ==
  IF ids = {} THEN st
  ELSE LET id == CHOOSE i \in ids : \A j \in ids : i <= j
           p == st.pendingRequests[id]
       IN RejectAll(
            Settle(IF clear THEN clearTimeout(st, p) ELSE st, p, "rejected",
                   "MCP connection closed", 0),
            ids \ {id}, clear)

\* pendingRequests.clear()
RECURSIVE MapClear(_)
MapClear(st) ==
  IF DOMAIN st.pendingRequests = {} THEN st
  ELSE MapClear(MapDelete(st, CHOOSE i \in DOMAIN st.pendingRequests : TRUE))

\* disconnect() as it would be without clearTimeout in its loop.
disconnect_keepTimers(st) ==
  MapClear(RejectAll(st, DOMAIN st.pendingRequests, FALSE))

\* disconnect(), the part on the pending requests.
disconnect(st) ==
  MapClear(RejectAll(st, DOMAIN st.pendingRequests, TRUE))

Disconnect ==
  /\ NoMicrotasks
  /\ UNCHANGED notSvc
  /\ Commit(disconnect(St))
  /\ procState' = IF process # NoProcess
                  THEN [procState EXCEPT ![process] = "killed"]
                  ELSE procState
  /\ process' = NoProcess
  /\ isConnected' = FALSE
  /\ UNCHANGED <<requestId, nData, wire, lineBuf>>

\* The 'exit' handler connect() installed on subprocess q.
ProcessExit(q) ==
  /\ NoMicrotasks
  /\ procState[q] \in {"running", "killed"}
  /\ UNCHANGED notSvc
  /\ procState' = [procState EXCEPT ![q] = "exited"]
  /\ isConnected' = FALSE
  /\ process' = NoProcess
  /\ UNCHANGED <<requestId, pendingRequests, timers, promises, microtasks,
                 inbox, nData, wire, lineBuf>>

\* The response lines subprocess q may write: answers to requests it has
\* read from its stdin.
ResponseLines(q) ==
  {Line(IdTok(i), k) \o NL : i \in inbox[q], k \in {"r", "e"}}

\* The lines that end within a text (given split at its line ends), and the
\* unfinished rest.
LinesEnded(parts) == SubSeq(parts, 1, Len(parts) - 1)

LineRest(parts) == parts[Len(parts)]

RECURSIVE MarkAnswered(_, _)
MarkAnswered(ps, lines) ==
  IF lines = <<>> THEN ps
  ELSE MarkAnswered(
         IF ParseOk(Head(lines))
         THEN [p \in DOMAIN ps |->
                 IF ps[p].id = IdOfTok(Parsed(Head(lines)).id)
                    /\ ps[p].by # "MCP process not connected"
                 THEN [ps[p] EXCEPT !.answered = TRUE]
                 ELSE ps[p]]
         ELSE ps,
         Tail(lines))

\* One stdout 'data' event of subprocess q carrying `data`.
Deliver(q, data) ==
  LET st == onStdoutData(St, data)
      parts == SplitNL(lineBuf[q] \o data)
  IN /\ Commit([st EXCEPT !.promises = MarkAnswered(@, LinesEnded(parts))])
     /\ lineBuf' = [lineBuf EXCEPT ![q] = LineRest(parts)]

\* Subprocess q writes one response and it arrives as one chunk.
StdoutData(q, data) ==
  /\ NoMicrotasks
  /\ procState[q] # "none"
  /\ wire[q] = <<>>
  /\ UNCHANGED notSvc
  /\ nData < MaxData
  /\ nData' = nData + 1
  /\ Deliver(q, data)
  /\ UNCHANGED <<process, isConnected, requestId, procState, wire>>

\* Subprocess q writes two responses and both arrive in one chunk.
StdoutData2(q, a, b) ==
  /\ NoMicrotasks
  /\ procState[q] # "none"
  /\ wire[q] = <<>>
  /\ UNCHANGED notSvc
  /\ nData + 2 <= MaxData
  /\ nData' = nData + 2
  /\ Deliver(q, a \o b)
  /\ UNCHANGED <<process, isConnected, requestId, procState, wire>>

\* Subprocess q writes one response to its stdout pipe.
ProcWrite(q, line) ==
  /\ procState[q] \in {"running", "killed"}
  /\ nData < MaxData
  /\ UNCHANGED notSvc
  /\ nData' = nData + 1
  /\ wire' = [wire EXCEPT ![q] = @ \o line]
  /\ UNCHANGED <<process, isConnected, requestId, pendingRequests, timers,
                 promises, microtasks, procState, inbox, lineBuf>>

\* A stdout 'data' event carrying the next n tokens of the pipe: the chunk
\* may end anywhere.
StdoutChunk(q, n) ==
  /\ NoMicrotasks
  /\ n \in 1..Len(wire[q])
  /\ UNCHANGED notSvc
  /\ wire' = [wire EXCEPT ![q] = SubSeq(@, n + 1, Len(@))]
  /\ Deliver(q, SubSeq(wire[q], 1, n))
  /\ UNCHANGED <<process, isConnected, requestId, procState, nData>>

SvcNext ==
  \/ Connect
  \/ ExecuteQuery
  \/ Resume
  \/ \E p \in Promises : Timeout(p)
  \/ Disconnect
  \/ \E q \in Procs : ProcessExit(q)
  \/ \E q \in Procs : \E data \in ResponseLines(q) : StdoutData(q, data)
  \/ /\ nData + 2 <= MaxData
     /\ \E q \in Procs : \E a \in ResponseLines(q) :
          \E b \in ResponseLines(q) : StdoutData2(q, a, b)

\* MCPClientService; every stdout chunk ends at a line end.
SvcSpec == Init /\ [][SvcNext]_vars

SvcChunkNext ==
  \/ Connect
  \/ ExecuteQuery
  \/ Resume
  \/ \E p \in Promises : Timeout(p)
  \/ Disconnect
  \/ \E q \in Procs : ProcessExit(q)
  \/ \E q \in Procs : \E line \in ResponseLines(q) : ProcWrite(q, line)
  \/ \E q \in Procs : \E n \in 1..(5 * MaxData) : StdoutChunk(q, n)

SvcRaceNext ==
  \/ ConnectWithin(MaxRaceRequests)
  \/ ExecuteQueryWithin(MaxRaceRequests)
  \/ Resume
  \/ \E p \in Promises : Timeout(p)
  \/ Disconnect
  \/ \E q \in Procs : ProcessExit(q)
  \/ \E q \in Procs : \E data \in ResponseLines(q) : StdoutData(q, data)
  \/ /\ nData + 2 <= MaxData
     /\ \E q \in Procs : \E a \in ResponseLines(q) :
          \E b \in ResponseLines(q) : StdoutData2(q, a, b)

\* MCPClientService with room for a third request, so that two connecting
\* calls and a tools/call overlap.
SvcRaceSpec == Init /\ [][SvcRaceNext]_vars

\* MCPClientService with the event loop's guarantees: the continuation of
\* a settled await runs, and an armed timer that is not cleared fires.
SvcLiveSpec ==
  /\ Init /\ [][SvcNext]_vars
  /\ WF_vars(Resume)
  /\ \A p \in 1..MaxRequests : WF_vars(Timeout(p))

\* MCPClientService; stdout chunks end wherever the pipe cuts them.
SvcChunkSpec == Init /\ [][SvcChunkNext]_vars

\* ------------------------------------------ CoraLogixMCPConnection methods
\* One record per promise sendRawRequest ("raw") or sendMCPRequest ("mcp")
\* returned, with the variables of its executor's closure: responseData,
\* hasResolved, the three listeners (`listening`) and the timer ("armed",
\* "cleared", "fired", or "none" when the executor returned before setting
\* it).  `cont` names the await that waits for the promise: "init",
\* "tools", "docs" (the three steps of initialize()) or "user" (a caller of
\* sendMCPRequest).  `written` says that the request went to stdin,
\* `initAtSend` what isInitialized was then, `settles` counts the calls of
\* resolve/reject, `answered` is "r" or "e" once a complete response line
\* carrying its id has been delivered on stdout, `fragment` says that
\* a chunk ended inside such a line, and `after` is the request whose
\* await the sending continuation followed (0 for the first request of a
\* call).
NewRequest(id, kind, method, cont, written, init) ==
  [id |-> id, kind |-> kind, method |-> method, cont |-> cont,
   written |-> written, initAtSend |-> init,
   responseData |-> <<>>, hasResolved |-> FALSE, listening |-> written,
   timer |-> IF written THEN "armed" ELSE "none",
   state |-> IF written THEN "pending" ELSE "rejected",
   by |-> IF written THEN ""
          ELSE "Process is not connected or stdin not writable",
   respId |-> "", settles |-> IF written THEN 0 ELSE 1,
   answered |-> "", fragment |-> FALSE, after |-> 0]

Requests == 1..Len(requests)

\* The part of the state the request operators transform, as one value.
CSt == [requests |-> requests, connTasks |-> connTasks,
        unanswered |-> unanswered]

ConnCommit(cs) ==
  /\ requests' = cs.requests
  /\ connTasks' = cs.connTasks
  /\ unanswered' = cs.unanswered

NoConnTasks == connTasks = <<>>

\* The request just sent was sent by the continuation of the await on
\* request r: the next step of the same call of initialize().
Chained(cs, r) == [cs EXCEPT !.requests[Len(cs.requests)].after = r]

\* resolve()/reject() of request r: the first call decides the promise and
\* queues the continuation of its await.
ConnSettle(cs, r, state, by, respId) ==
  IF cs.requests[r].state = "pending"
  THEN [cs EXCEPT
          !.requests[r] = [@ EXCEPT !.state = state, !.by = by,
                                    !.respId = respId, !.settles = @ + 1],
          !.connTasks = Append(@, r)]
  ELSE [cs EXCEPT !.requests[r].settles = @ + 1]

\* cleanup() that removes nothing.
cleanup_none(cs, r) == cs

\* cleanup(): the three listeners of request r are removed.
cleanup(cs, r) == [cs EXCEPT !.requests[r].listening = FALSE]

\* The branch both onStdout listeners take on a parsed message whose id is
\* the request's: hasResolved, cleanup(), clearTimeout (sendMCPRequest only)
\* and reject on `error`, resolve otherwise.
Respond(cs, r, parsed, clear) ==
  LET c1 == cleanup([cs EXCEPT !.requests[r].hasResolved = TRUE], r)
      c2 == IF clear THEN [c1 EXCEPT !.requests[r].timer = "cleared"] ELSE c1
  IN IF parsed.error
     THEN ConnSettle(c2, r, "rejected", "remote error", parsed.id)
     ELSE ConnSettle(c2, r, "resolved", "response", parsed.id)

\* sendRawRequest's line loop: one try around the whole loop, so the first
\* line that JSON.parse rejects ends it.
RECURSIVE RawLines(_, _, _)
RawLines(cs, r, lines) ==
  IF lines = <<>> THEN cs
  ELSE IF ~ParseOk(Head(lines)) THEN cs
  ELSE IF Parsed(Head(lines)).id = cs.requests[r].id
       THEN Respond(cs, r, Parsed(Head(lines)), FALSE)
       ELSE RawLines(cs, r, Tail(lines))

\* onStdout of sendRawRequest: the line loop runs only when the whole
\* buffer fails to parse.
sendRawRequest_onStdout(cs, r, data) ==
  IF cs.requests[r].hasResolved THEN cs
  ELSE LET buf == cs.requests[r].responseData \o data
           c1 == [cs EXCEPT !.requests[r].responseData = buf]
       IN IF ParseOk(buf)
          THEN IF Parsed(buf).id = c1.requests[r].id
               THEN Respond(c1, r, Parsed(buf), FALSE)
               ELSE c1
          ELSE RawLines(c1, r, NonBlank(SplitNL(buf)))

\* sendMCPRequest's line loop: a try around each line, an invalid line is
\* skipped.
RECURSIVE MCPLines(_, _, _)
MCPLines(cs, r, lines) ==
  IF lines = <<>> THEN cs
  ELSE IF ParseOk(Head(lines))
          /\ Parsed(Head(lines)).id = cs.requests[r].id
       THEN Respond(cs, r, Parsed(Head(lines)), TRUE)
       ELSE MCPLines(cs, r, Tail(lines))

\* onStdout of sendMCPRequest as it would be if each chunk replaced the
\* buffer instead of being appended to it.
sendMCPRequest_onStdout_noBuffer(cs, r, data) ==
  IF cs.requests[r].hasResolved THEN cs
  ELSE LET c1 == [cs EXCEPT !.requests[r].responseData = data]
       IN IF Trim(data) # <<>> /\ ParseOk(data)
             /\ Parsed(data).id = c1.requests[r].id
          THEN Respond(c1, r, Parsed(data), TRUE)
          ELSE MCPLines(c1, r, NonBlank(SplitNL(data)))

\* onStdout of sendMCPRequest: the whole buffer first, then line by line.
sendMCPRequest_onStdout(cs, r, data) ==
  IF cs.requests[r].hasResolved THEN cs
  ELSE LET buf == cs.requests[r].responseData \o data
           c1 == [cs EXCEPT !.requests[r].responseData = buf]
       IN IF Trim(buf) # <<>> /\ ParseOk(buf)
             /\ Parsed(buf).id = c1.requests[r].id
          THEN Respond(c1, r, Parsed(buf), TRUE)
          ELSE MCPLines(c1, r, NonBlank(SplitNL(buf)))

\* onStderr (the same in both methods): only a chunk that contains 'Error:'
\* and neither '[Local->Remote]' nor '[Remote->Local]' rejects.
onStderr(cs, r, errorSignal) ==
  IF errorSignal /\ ~cs.requests[r].hasResolved
  THEN ConnSettle(cleanup([cs EXCEPT !.requests[r].hasResolved = TRUE], r),
                  r, "rejected", "MCP Process Error", "")
  ELSE cs

\* onError (the same in both methods).
onError(cs, r) ==
  IF cs.requests[r].hasResolved THEN cs
  ELSE ConnSettle(cleanup([cs EXCEPT !.requests[r].hasResolved = TRUE], r),
                  r, "rejected", "process error", "")

\* The setTimeout callback (the same in both methods).
onTimeout(cs, r) ==
  LET c1 == [cs EXCEPT !.requests[r].timer = "fired"] IN
  IF c1.requests[r].hasResolved THEN c1
  ELSE ConnSettle(cleanup([c1 EXCEPT !.requests[r].hasResolved = TRUE], r),
                  r, "rejected", "MCP request timeout (120 seconds)", "")

\* The executor of both promises: reject at once without a writable stdin,
\* else register the listeners, arm the timer and write the request.
ConnSend(cs, procNow, init, id, kind, method, cont) ==
  LET r == Len(cs.requests) + 1 IN
  IF procNow = NoProcess
  THEN [cs EXCEPT
          !.requests = Append(@, NewRequest(id, kind, method, cont,
                                            FALSE, init)),
          !.connTasks = Append(@, r)]
  ELSE [cs EXCEPT
          !.requests = Append(@, NewRequest(id, kind, method, cont,
                                            TRUE, init)),
          !.unanswered = @ \cup {r}]

sendRawRequest(cs, procNow, init, id, method, cont) ==
  ConnSend(cs, procNow, init, id, "raw", method, cont)

\* `req_${Date.now()}_${Math.random().toString(36).substr(2, 9)}`: the
\* clock and nine random base-36 digits, a value no earlier call had.
NewRequestId(cs) ==
  "req_" \o ToString(
     Cardinality({r \in 1..Len(cs.requests) : cs.requests[r].kind = "mcp"}) + 1)

sendMCPRequest(cs, procNow, init, method) ==
  ConnSend(cs, procNow, init, NewRequestId(cs), "mcp", method, "user")

\* EventEmitter.emit: the listeners run in the order of their registration.
RECURSIVE EmitStdout(_, _, _)
EmitStdout(cs, r, data) ==
  IF r > Len(cs.requests) THEN cs
  ELSE EmitStdout(
         IF ~cs.requests[r].listening THEN cs
         ELSE IF cs.requests[r].kind = "raw"
              THEN sendRawRequest_onStdout(cs, r, data)
              ELSE sendMCPRequest_onStdout(cs, r, data),
         r + 1, data)

RECURSIVE EmitStderr(_, _, _)
EmitStderr(cs, r, errorSignal) ==
  IF r > Len(cs.requests) THEN cs
  ELSE EmitStderr(IF cs.requests[r].listening
                  THEN onStderr(cs, r, errorSignal) ELSE cs,
                  r + 1, errorSignal)

RECURSIVE EmitError(_, _)
EmitError(cs, r) ==
  IF r > Len(cs.requests) THEN cs
  ELSE EmitError(IF cs.requests[r].listening THEN onError(cs, r) ELSE cs,
                 r + 1)

\* ------------------------------------------ CoraLogixMCPConnection actions
InitCalls == Cardinality({r \in Requests : requests[r].cont = "init"})

UserCalls == Cardinality({r \in Requests : requests[r].cont = "user"})

\* The calls of initialize() and sendMCPRequest() so far.
ConnCalls == InitCalls + UserCalls + initReturned

\* initialize() without its first line.
Initialize_noGuard ==
  /\ NoConnTasks
  /\ ConnCalls < MaxConnCalls
  /\ ConnCommit(sendRawRequest(CSt, proc, isInitialized, "init_1",
                               "initialize", "init"))
  /\ UNCHANGED initReturned
  /\ UNCHANGED <<proc, procStatus, isInitialized, availableTools,
                 dataprimeDocs, connWire, connLineBuf>>
  /\ UNCHANGED connFaults
  /\ UNCHANGED connLines
  /\ UNCHANGED stderrLog
  /\ UNCHANGED notConn

\* initialize() up to its first await: return when isInitialized, else
\* send the request "init_1".
Initialize ==
  /\ NoConnTasks
  /\ ConnCalls < MaxConnCalls
  /\ IF isInitialized
     THEN /\ initReturned' = initReturned + 1
          /\ UNCHANGED <<requests, connTasks, unanswered>>
     ELSE /\ ConnCommit(sendRawRequest(CSt, proc, isInitialized, "init_1",
                                       "initialize", "init"))
          /\ UNCHANGED initReturned
  /\ UNCHANGED <<proc, procStatus, isInitialized, availableTools,
                 dataprimeDocs, connWire, connLineBuf>>
  /\ UNCHANGED connFaults
  /\ UNCHANGED connLines
  /\ UNCHANGED stderrLog
  /\ UNCHANGED notConn

\* A caller's sendMCPRequest('tools/call', params): the method is public
\* and checks nothing but the subprocess's stdin.
SendMCPRequest ==
  /\ NoConnTasks
  /\ ConnCalls < MaxConnCalls
  /\ ConnCommit(sendMCPRequest(CSt, proc, isInitialized, "tools/call"))
  /\ UNCHANGED <<proc, procStatus, isInitialized, availableTools,
                 dataprimeDocs, connWire, connLineBuf>>
  /\ UNCHANGED connFaults
  /\ UNCHANGED connLines
  /\ UNCHANGED initReturned
  /\ UNCHANGED stderrLog
  /\ UNCHANGED notConn

\* initialize() without the try/catch around the docs fetch.
initialize_docs_fatal(q, docs) ==
  [dataprimeDocs |-> IF q.state = "resolved" THEN "docs" ELSE docs,
   isInitialized |-> q.state = "resolved"]

\* initialize() after the await on "docs_1" (q): the text of the docs, or
\* the catch that only warns; then this.isInitialized = true.
initialize_docs(q, docs) ==
  [dataprimeDocs |-> IF q.state = "resolved" THEN "docs" ELSE docs,
   isInitialized |-> TRUE]

\* The continuation of the await on the request at the head of connTasks.
\* initialize(): after "init_1" send "tools_1"; after "tools_1" store the
\* tools and send "docs_1"; after "docs_1", resolved or rejected, set
\* isInitialized.  A rejected "init_1" or "tools_1" is rethrown to the
\* caller of initialize().
ConnResume ==
  /\ connTasks # <<>>
  /\ LET r == Head(connTasks)
         q == requests[r]
         cs == [CSt EXCEPT !.connTasks = Tail(@)]
     IN
     \/ /\ q.cont = "init" /\ q.state = "resolved"
        /\ ConnCommit(Chained(sendRawRequest(cs, proc, isInitialized,
                                             "tools_1", "tools/list", "tools"),
                              r))
        /\ UNCHANGED <<isInitialized, availableTools, dataprimeDocs>>
     \/ /\ q.cont = "tools" /\ q.state = "resolved"
        /\ availableTools' = r
        /\ ConnCommit(Chained(sendRawRequest(cs, proc, isInitialized,
                                             "docs_1", "tools/call", "docs"),
                              r))
        /\ UNCHANGED <<isInitialized, dataprimeDocs>>
     \/ /\ q.cont = "docs"
        /\ dataprimeDocs' = initialize_docs(q, dataprimeDocs).dataprimeDocs
        /\ isInitialized' = initialize_docs(q, dataprimeDocs).isInitialized
        /\ ConnCommit(cs)
        /\ UNCHANGED availableTools
     \/ /\ \/ q.cont = "user"
           \/ q.cont \in {"init", "tools"} /\ q.state = "rejected"
        /\ ConnCommit(cs)
        /\ UNCHANGED <<isInitialized, availableTools, dataprimeDocs>>
  /\ UNCHANGED <<proc, procStatus, connWire, connLineBuf>>
  /\ UNCHANGED connFaults
  /\ UNCHANGED connLines
  /\ UNCHANGED initReturned
  /\ UNCHANGED stderrLog
  /\ UNCHANGED notConn

\* The 120-second timer of request r fires.  Once hasResolved is set the
\* callback returns at once and changes nothing, so only the other case is
\* a step.
ConnTimeout(r) ==
  /\ NoConnTasks
  /\ r \in Requests
  /\ requests[r].timer = "armed"
  /\ ~requests[r].hasResolved
  /\ ConnCommit(onTimeout(CSt, r))
  /\ UNCHANGED <<proc, procStatus, isInitialized, availableTools,
                 dataprimeDocs, connWire, connLineBuf>>
  /\ connFaults < MaxFaults
  /\ connFaults' = connFaults + 1
  /\ UNCHANGED connLines
  /\ UNCHANGED initReturned
  /\ UNCHANGED stderrLog
  /\ UNCHANGED notConn

Listening == {r \in Requests : requests[r].listening}

\* A chunk of the subprocess's stderr: this.emit('stderr', ...).
ConnStderr(errorSignal) ==
  /\ NoConnTasks
  /\ procStatus # "closed"
  /\ Listening # {}
  /\ ConnCommit(EmitStderr(CSt, 1, errorSignal))
  /\ UNCHANGED <<proc, procStatus, isInitialized, availableTools,
                 dataprimeDocs, connWire, connLineBuf>>
  /\ errorSignal => connFaults < MaxFaults
  /\ connFaults' = IF errorSignal THEN connFaults + 1 ELSE connFaults
  /\ UNCHANGED connLines
  /\ UNCHANGED initReturned
  /\ UNCHANGED stderrLog
  /\ UNCHANGED notConn

\* The stderr chunks, as words: a log line, an error line, and error lines
\* that carry one of mcp-remote's traffic markers.
StderrChunks ==
  {<<"log">>, <<"Error:", "boom">>,
   <<"[Local->Remote]", "Error:", "boom">>,
   <<"Error:", "boom", "[Remote->Local]">>}

\* The test of onStderr with the markers left out.
IsErrorSignal_anyError(data) == includes(data, <<"Error:">>)

\* data.includes('Error:') && !data.includes('[Local->Remote]') &&
\* !data.includes('[Remote->Local]')
IsErrorSignal(data) ==
  /\ includes(data, <<"Error:">>)
  /\ ~includes(data, <<"[Local->Remote]">>)
  /\ ~includes(data, <<"[Remote->Local]">>)

\* The subprocess writes `data` to stderr: this.emit('stderr', data).
ConnStderrData(data) ==
  /\ NoConnTasks
  /\ procStatus # "closed"
  /\ Listening # {}
  /\ Len(stderrLog) < MaxStderr
  /\ stderrLog' = Append(stderrLog, data)
  /\ ConnCommit(EmitStderr(CSt, 1, IsErrorSignal(data)))
  /\ UNCHANGED <<proc, procStatus, isInitialized, availableTools,
                 dataprimeDocs, connWire, connLineBuf>>
  /\ IsErrorSignal(data) => connFaults < MaxFaults
  /\ connFaults' = IF IsErrorSignal(data) THEN connFaults + 1 ELSE connFaults
  /\ UNCHANGED connLines
  /\ UNCHANGED initReturned
  /\ UNCHANGED notConn

\* The subprocess's 'error' event: this.emit('error', err).
ConnErrorEvent ==
  /\ NoConnTasks
  /\ procStatus # "closed"
  /\ Listening # {}
  /\ ConnCommit(EmitError(CSt, 1))
  /\ UNCHANGED <<proc, procStatus, isInitialized, availableTools,
                 dataprimeDocs, connWire, connLineBuf>>
  /\ connFaults < MaxFaults
  /\ connFaults' = connFaults + 1
  /\ UNCHANGED connLines
  /\ UNCHANGED initReturned
  /\ UNCHANGED stderrLog
  /\ UNCHANGED notConn

\* The subprocess's 'close' event, after its stdout has ended: 'close' is
\* re-emitted (no request listens to it) and proc = null.
ConnClose ==
  /\ NoConnTasks
  /\ procStatus # "closed"
  /\ connWire = <<>>
  /\ procStatus' = "closed"
  /\ proc' = NoProcess
  /\ UNCHANGED <<isInitialized, availableTools, dataprimeDocs, requests,
                 connTasks, unanswered, connWire, connLineBuf>>
  /\ UNCHANGED connFaults
  /\ UNCHANGED connLines
  /\ UNCHANGED initReturned
  /\ UNCHANGED stderrLog
  /\ UNCHANGED notConn

\* disconnect(): kill the subprocess and forget it.
ConnDisconnect ==
  /\ NoConnTasks
  /\ IF proc # NoProcess
     THEN procStatus' = "killed" /\ proc' = NoProcess
     ELSE UNCHANGED <<proc, procStatus>>
  /\ UNCHANGED <<isInitialized, availableTools, dataprimeDocs, requests,
                 connTasks, unanswered, connWire, connLineBuf>>
  /\ UNCHANGED connFaults
  /\ UNCHANGED connLines
  /\ UNCHANGED initReturned
  /\ UNCHANGED stderrLog
  /\ UNCHANGED notConn

\* What a chunk completes: with the text delivered since the last line
\* end, the response lines that are now whole.
ConnLinesNow(data) == SplitNL(connLineBuf \o data)

RECURSIVE ConnMark(_, _)
ConnMark(rs, parts) ==
  IF parts = <<>> THEN rs
  ELSE ConnMark(
         IF ParseOk(Head(parts))
         THEN [r \in DOMAIN rs |->
                 IF rs[r].id = Parsed(Head(parts)).id /\ rs[r].answered = ""
                 THEN [rs[r] EXCEPT
                         !.answered = IF Parsed(Head(parts)).error
                                      THEN "e" ELSE "r"]
                 ELSE rs[r]]
         ELSE rs,
         Tail(parts))

ConnLineRest(data) ==
  LET parts == ConnLinesNow(data)
      last == parts[Len(parts)]
  IN IF ParseOk(last) THEN <<>> ELSE last

ConnFragments(rs, rest) ==
  [r \in DOMAIN rs |->
     IF Len(rest) >= 2 /\ rest[2] = rs[r].id /\ rs[r].state = "pending"
     THEN [rs[r] EXCEPT !.fragment = TRUE]
     ELSE rs[r]]

\* proc.stdout 'data': this.emit('stdout', data.toString()).
ConnDeliver(data) ==
  LET c1 == [CSt EXCEPT !.requests = ConnMark(@, ConnLinesNow(data))]
      c2 == EmitStdout(c1, 1, data)
  IN /\ ConnCommit([c2 EXCEPT
                      !.requests = ConnFragments(@, ConnLineRest(data))])
     /\ connLineBuf' = ConnLineRest(data)

\* The subprocess answers request r, and the line arrives as one chunk.
ConnStdout(r, kind) ==
  /\ NoConnTasks
  /\ procStatus # "closed"
  /\ connWire = <<>>
  /\ r \in unanswered
  /\ LET data == Line(requests[r].id, kind) \o NL
         c1 == [CSt EXCEPT !.unanswered = @ \ {r},
                           !.requests = ConnMark(@, ConnLinesNow(data))]
         c2 == EmitStdout(c1, 1, data)
     IN /\ ConnCommit([c2 EXCEPT
                         !.requests = ConnFragments(@, ConnLineRest(data))])
        /\ connLineBuf' = ConnLineRest(data)
  /\ UNCHANGED <<proc, procStatus, isInitialized, availableTools,
                 dataprimeDocs, connWire>>
  /\ kind = "e" => connFaults < MaxFaults
  /\ connFaults' = IF kind = "e" THEN connFaults + 1 ELSE connFaults
  /\ UNCHANGED connLines
  /\ UNCHANGED initReturned
  /\ UNCHANGED stderrLog
  /\ UNCHANGED notConn

\* The subprocess writes its answer to request r to stdout.
ConnProcWrite(r, kind) ==
  /\ NoConnTasks
  /\ procStatus = "running"
  /\ connLines < MaxWireLines
  /\ connLines' = connLines + 1
  /\ r \in unanswered
  /\ unanswered' = unanswered \ {r}
  /\ connWire' = connWire \o Line(requests[r].id, kind) \o NL
  /\ UNCHANGED <<proc, procStatus, isInitialized, availableTools,
                 dataprimeDocs, requests, connTasks, connLineBuf>>
  /\ kind = "e" => connFaults < MaxFaults
  /\ connFaults' = IF kind = "e" THEN connFaults + 1 ELSE connFaults
  /\ UNCHANGED initReturned
  /\ UNCHANGED stderrLog
  /\ UNCHANGED notConn

\* A 'data' event carries the next n tokens of stdout.
ConnStdoutChunk(n) ==
  /\ NoConnTasks
  /\ procStatus # "closed"
  /\ n <= Len(connWire)
  /\ ConnDeliver(SubSeq(connWire, 1, n))
  /\ connWire' = SubSeq(connWire, n + 1, Len(connWire))
  /\ UNCHANGED <<proc, procStatus, isInitialized, availableTools,
                 dataprimeDocs>>
  /\ UNCHANGED connFaults
  /\ UNCHANGED connLines
  /\ UNCHANGED initReturned
  /\ UNCHANGED stderrLog
  /\ UNCHANGED notConn

ConnNext ==
  \/ Initialize
  \/ SendMCPRequest
  \/ ConnResume
  \/ \E r \in Requests : ConnTimeout(r)
  \/ \E sig \in BOOLEAN : ConnStderr(sig)
  \/ ConnErrorEvent
  \/ ConnClose
  \/ ConnDisconnect
  \/ \E r \in Requests : \E kind \in {"r", "e"} : ConnStdout(r, kind)

\* CoraLogixMCPConnection; every response line arrives as one chunk.
ConnSpec == Init /\ [][ConnNext]_vars

ConnStderrNext ==
  \/ Initialize
  \/ SendMCPRequest
  \/ ConnResume
  \/ \E r \in Requests : ConnTimeout(r)
  \/ \E data \in StderrChunks : ConnStderrData(data)
  \/ ConnErrorEvent
  \/ ConnClose
  \/ ConnDisconnect
  \/ \E r \in Requests : \E kind \in {"r", "e"} : ConnStdout(r, kind)

\* CoraLogixMCPConnection; the text of the stderr chunks is followed.
ConnStderrSpec == Init /\ [][ConnStderrNext]_vars

ConnChunkNext ==
  \/ Initialize
  \/ SendMCPRequest
  \/ ConnResume
  \/ \E r \in Requests : ConnTimeout(r)
  \/ \E sig \in BOOLEAN : ConnStderr(sig)
  \/ ConnErrorEvent
  \/ ConnClose
  \/ ConnDisconnect
  \/ \E r \in Requests : \E kind \in {"r", "e"} : ConnProcWrite(r, kind)
  \/ \E n \in 1..(5 * MaxWireLines) : ConnStdoutChunk(n)

\* CoraLogixMCPConnection; stdout chunks end wherever the pipe cuts them.
ConnChunkSpec == Init /\ [][ConnChunkNext]_vars

\* -------------------------------------------- CoralogixMCPClient methods
\* One record per call of an async method.  `pc` names the await the call
\* is suspended at: in connect() "c_load1" (ensureClient's loadSDK),
\* "c_ens" (ensureClient, then loadSDK), "c_conn" (client.connect); in
\* initialize() "i_load1", "i_ens1", "i_tools" (client.listTools),
\* "i_load2", "i_ens2", "i_docs" (client.callTool of the docs); in
\* callTool() "t_load", "t_ens", "t_call"; in close() "x_close"; "done"
\* once its promise is settled.  `client` is the local `client`, `calls`
\* the SDK calls it has made (the last one is the one awaited),
\* `result`/`error` how its promise settled (error: the SDK call whose
\* rejection it carries), `initAtCall` what isInitialized was when the
\* method was called.
NewTask(kind) ==
  [kind |-> kind, pc |-> "done", client |-> 0, calls |-> <<>>,
   result |-> "", error |-> "", initAtCall |-> cliIsInitialized]

\* One record per call into the SDK, with the promise it returned.
NewCall(call, client) ==
  [call |-> call, client |-> client, state |-> "pending",
   initAtCall |-> cliIsInitialized]

Tasks == 1..Len(tasks)

\* ensureClient() up to its await or its return: with no mcpClient it
\* awaits loadSDK() (pcLoad); else it returns this.mcpClient (pcEns).
ensureClient(tk, pcLoad, pcEns) ==
  IF mcpClient = 0
  THEN [tk EXCEPT !.pc = pcLoad]
  ELSE [tk EXCEPT !.pc = pcEns, !.client = mcpClient]

\* The task makes an SDK call and awaits it.
Awaiting(tk, call, pcNext) ==
  [tk EXCEPT !.pc = pcNext, !.calls = Append(@, NewCall(call, tk.client))]

\* The SDK settles the call the task awaits.
Settled(tk, ok) ==
  [tk EXCEPT !.calls[Len(tk.calls)].state =
               IF ok THEN "resolved" ELSE "rejected"]

\* The method returns, or throws what the awaited SDK call threw.
Done(tk, ok) ==
  [tk EXCEPT !.pc = "done",
             !.result = IF ok THEN "resolved" ELSE "rejected",
             !.error = IF ok \/ tk.calls = <<>> THEN ""
                       ELSE tk.calls[Len(tk.calls)].call]

\* initialize(): catch (error) { ...; throw error; } around connect() and
\* listTools().
initialize_catch_swallow(tk) == ensureClient(tk, "i_load2", "i_ens2")

initialize_catch(tk) == Done(tk, FALSE)

CliCalls == Len(tasks)

Transports ==
  Cardinality({<<t, c>> \in Tasks \X (1..4) :
                 c <= Len(tasks[t].calls)
                 /\ tasks[t].calls[c].call = "connect"})

CliFrame(changed) ==
  /\ "mcpClient" \notin changed => UNCHANGED <<mcpClient, clients>>
  /\ "transport" \notin changed => UNCHANGED transport
  /\ "flag" \notin changed => UNCHANGED cliIsInitialized
  /\ "tools" \notin changed => UNCHANGED cliAvailableTools
  /\ "docs" \notin changed => UNCHANGED cliDataprimeDocs

\* -------------------------------------------- CoralogixMCPClient actions
\* initialize() that returns at once when an earlier call of it failed.
CliInitialize_once ==
  /\ CliCalls < MaxCliCalls
  /\ tasks' = Append(tasks,
       IF cliIsInitialized
          \/ \E t \in Tasks :
               tasks[t].kind = "initialize" /\ tasks[t].result = "rejected"
       THEN Done(NewTask("initialize"), TRUE)
       ELSE ensureClient(NewTask("initialize"), "c_load1", "c_ens"))
  /\ CliFrame({})
  /\ UNCHANGED cliFaults
  /\ UNCHANGED notCli

\* initialize() up to its first await: return when isInitialized, else
\* connect() (whose own isInitialized test is passed in the same step) up
\* to the await in or on ensureClient().
CliInitializeWithin(max) ==
  /\ CliCalls < max
  /\ tasks' = Append(tasks,
       IF cliIsInitialized
       THEN Done(NewTask("initialize"), TRUE)
       ELSE ensureClient(NewTask("initialize"), "c_load1", "c_ens"))
  /\ CliFrame({})
  /\ UNCHANGED cliFaults
  /\ UNCHANGED notCli

CliInitialize == CliInitializeWithin(MaxCliCalls)

\* sendMCPRequest('tools/call', params): initialize() first unless
\* isInitialized, then callTool().
CliSendMCPRequestWithin(max) ==
  /\ CliCalls < max
  /\ tasks' = Append(tasks,
       IF cliIsInitialized
       THEN ensureClient(NewTask("sendMCPRequest"), "t_load", "t_ens")
       ELSE ensureClient(NewTask("sendMCPRequest"), "c_load1", "c_ens"))
  /\ CliFrame({})
  /\ UNCHANGED cliFaults
  /\ UNCHANGED notCli

CliSendMCPRequest == CliSendMCPRequestWithin(MaxCliCalls)

\* callTool(name, args) up to the await in or on ensureClient().
CliCallToolWithin(max) ==
  /\ CliCalls < max
  /\ tasks' = Append(tasks,
                     ensureClient(NewTask("callTool"), "t_load", "t_ens"))
  /\ CliFrame({})
  /\ UNCHANGED cliFaults
  /\ UNCHANGED notCli

CliCallTool == CliCallToolWithin(MaxCliCalls)

\* close() (and disconnect(), which calls it) up to its await.
CliCloseWithin(max) ==
  /\ CliCalls < max
  /\ tasks' = Append(tasks,
       IF transport # 0 /\ mcpClient # 0
       THEN Awaiting([NewTask("close") EXCEPT !.client = mcpClient],
                     "close", "x_close")
       ELSE Done(NewTask("close"), TRUE))
  /\ CliFrame({})
  /\ UNCHANGED cliFaults
  /\ UNCHANGED notCli

CliClose == CliCloseWithin(MaxCliCalls)

\* The continuation of the await call t is suspended at.  An await on
\* loadSDK() or on ensureClient() resumes at once (ok); an await on an SDK
\* call resumes when the SDK settles it, resolved (ok) or rejected.
CliResume(t, ok) ==
  /\ t \in Tasks
  /\ ~ok => cliFaults < MaxFaults
  /\ cliFaults' = IF ok THEN cliFaults ELSE cliFaults + 1
  /\ LET tk == tasks[t]
         sk == Settled(tk, ok)
         Put(new) == tasks' = [tasks EXCEPT ![t] = new]
     IN
     \* ensureClient() after loadSDK(): this.mcpClient = new ClientClass
     \/ /\ ok /\ tk.pc \in {"c_load1", "i_load1", "i_load2", "t_load"}
        /\ clients' = clients + 1
        /\ mcpClient' = clients + 1
        /\ Put([tk EXCEPT !.client = clients + 1,
                          !.pc = CASE tk.pc = "c_load1" -> "c_ens"
                                   [] tk.pc = "i_load1" -> "i_ens1"
                                   [] tk.pc = "i_load2" -> "i_ens2"
                                   [] OTHER -> "t_ens"])
        /\ CliFrame({"mcpClient"})
     \* connect() after ensureClient() and loadSDK():
     \* this.transport = new TransportClass; client.connect
     \/ /\ ok /\ tk.pc = "c_ens"
        /\ transport' = Transports + 1
        /\ Put(Awaiting(tk, "connect", "c_conn"))
        /\ CliFrame({"transport"})
     \* initialize() after connect(): ensureClient()
     \/ /\ tk.pc = "c_conn"
        /\ Put(IF ok THEN ensureClient(sk, "i_load1", "i_ens1")
               ELSE initialize_catch(sk))
        /\ CliFrame({})
     \* initialize(): client.listTools()
     \/ /\ ok /\ tk.pc = "i_ens1"
        /\ Put(Awaiting(tk, "listTools", "i_tools"))
        /\ CliFrame({})
     \* initialize(): this.availableTools = toolsResponse.tools || []
     \/ /\ tk.pc = "i_tools"
        /\ cliAvailableTools' = IF ok THEN t ELSE cliAvailableTools
        /\ Put(IF ok THEN ensureClient(sk, "i_load2", "i_ens2")
               ELSE initialize_catch(sk))
        /\ CliFrame({"tools"})
     \* initialize(): client.callTool of read_dataprime_intro_docs
     \/ /\ ok /\ tk.pc = "i_ens2"
        /\ Put(Awaiting(tk, "docs", "i_docs"))
        /\ CliFrame({})
     \* initialize(): the docs, or the catch around them; isInitialized
     \/ /\ tk.pc = "i_docs"
        /\ cliDataprimeDocs' = IF ok THEN "docs" ELSE cliDataprimeDocs
        /\ cliIsInitialized' = TRUE
        /\ Put(IF tk.kind = "initialize"
               THEN Done(sk, TRUE)
               ELSE ensureClient(sk, "t_load", "t_ens"))
        /\ CliFrame({"docs", "flag"})
     \* callTool(): client.callTool
     \/ /\ ok /\ tk.pc = "t_ens"
        /\ Put(Awaiting(tk, "callTool", "t_call"))
        /\ CliFrame({})
     \/ /\ tk.pc = "t_call"
        /\ Put(Done(sk, ok))
        /\ CliFrame({})
     \* close() after mcpClient.close()
     \/ /\ tk.pc = "x_close"
        /\ IF ok
           THEN /\ cliIsInitialized' = FALSE
                /\ mcpClient' = 0
                /\ UNCHANGED clients
           ELSE UNCHANGED <<cliIsInitialized, mcpClient, clients>>
        /\ Put(Done(sk, ok))
        /\ CliFrame({"flag", "mcpClient"})
  /\ UNCHANGED notCli

CliNext ==
  \/ CliInitialize
  \/ CliSendMCPRequest
  \/ CliCallTool
  \/ CliClose
  \/ \E t \in Tasks : \E ok \in BOOLEAN : CliResume(t, ok)

\* CoralogixMCPClient.
CliSpec == Init /\ [][CliNext]_vars

\* The calls that have not returned yet.
InFlight == Cardinality({t \in Tasks : tasks[t].pc # "done"})

CliRaceNext ==
  \/ InFlight < MaxInFlight /\ CliInitializeWithin(MaxCliRaceCalls)
  \/ InFlight < MaxInFlight /\ CliSendMCPRequestWithin(MaxCliRaceCalls)
  \/ InFlight < MaxInFlight /\ CliCallToolWithin(MaxCliRaceCalls)
  \/ InFlight < MaxInFlight /\ CliCloseWithin(MaxCliRaceCalls)
  \/ \E t \in Tasks : \E ok \in BOOLEAN : CliResume(t, ok)

\* CoralogixMCPClient with room for a third call, two of them in progress
\* together.
CliRaceSpec == Init /\ [][CliRaceNext]_vars

\* ------------------------------------------------- the two session classes
\* The CoraLogixMCPConnection object as getConnectionObject() returns it.
ConnFresh ==
  /\ proc = 1 /\ procStatus = "running"
  /\ requests = <<>> /\ connTasks = <<>> /\ unanswered = {}
  /\ connFaults = 0 /\ connLines = 0
  /\ connWire = <<>> /\ connLineBuf = <<>>
  /\ initReturned = 0 /\ stderrLog = <<>>

\* A CoralogixMCPClient and a CoraLogixMCPConnection share no field, no
\* listener and no subprocess, so a behaviour of the pair is a behaviour
\* of each: a run works on one of them and leaves the other as created.
SessionNext ==
  \/ tasks = <<>> /\ ConnNext
  \/ ConnFresh /\ CliNext

\* CoralogixMCPClient and CoraLogixMCPConnection.
SessionSpec == Init /\ [][SessionNext]_vars

\* ============================================================== claims
\* ------------------------------------------------- MCPClientService

Registered(p) == promises[p].by # "MCP process not connected"

\* C1: a promise of sendRequest that a response settled (resolved, or
\* rejected with the response's error) was settled by a response whose id is
\* the id of its own request, whatever the order of the responses.
C1_SettledByOwnId ==
  \A p \in Promises :
    promises[p].by \in {"response", "remote error"}
      => promises[p].respId = promises[p].id

\* Two requests were outstanding together and the later one has been
\* answered while the earlier one still waits.
C1_Witness ==
  \E p1 \in Promises : \E p2 \in Promises :
    /\ p1 < p2
    /\ promises[p1].state = "pending"
    /\ promises[p2].by = "response"
    /\ promises[p2].respId = promises[p2].id

\* C2: resolve/reject of a request is called at most once and its table entry
\* is removed exactly once, by the first of response, timeout and
\* disconnect(): a pending request has its entry and its timer, a settled one
\* has neither, and a late response changes nothing.
C2_SettledAtMostOnce ==
  \A p \in Promises :
    /\ promises[p].settles <= 1
    /\ promises[p].removes <= 1
    /\ promises[p].state = "pending" =>
         /\ promises[p].settles = 0 /\ promises[p].removes = 0
         /\ promises[p].id \in DOMAIN pendingRequests
         /\ pendingRequests[promises[p].id] = p
         /\ p \in timers
    /\ (promises[p].state # "pending" /\ Registered(p)) =>
         /\ promises[p].settles = 1 /\ promises[p].removes = 1
         /\ p \notin MapRange(pendingRequests)
         /\ p \notin timers

\* A response arrived after its request had timed out.
C2_Witness ==
  \E p \in Promises :
    promises[p].by = "MCP request timeout" /\ promises[p].answered

\* C3: once subprocess q has exited, no request written to q is still
\* pending (the exit rejected them all).
C3_ExitRejectsPending ==
  \A q \in Procs :
    procState[q] = "exited" =>
      \A p \in Promises :
        (Registered(p) /\ promises[p].id \in inbox[q])
          => promises[p].state # "pending"

\* C6: a request whose complete response line has been received on stdout,
\* in however many chunks, is no longer pending: the response reached
\* handleResponse and settled it.
C6_SplitResponseSettles ==
  \A p \in Promises :
    promises[p].answered => promises[p].state # "pending"

NeverConnected ==
  /\ process = NoProcess /\ ~isConnected /\ requestId = 0
  /\ promises = <<>> /\ SpawnedProcs = {}

\* C5: every step of disconnect() rejects each pending request with
\* 'MCP connection closed', leaves none of their timers armed, empties the
\* table and sets process = null and isConnected = false; on a service that
\* never connected it changes nothing.
C5_DisconnectEffect ==
  [][Disconnect =>
       /\ pendingRequests' = EmptyMap
       /\ process' = NoProcess
       /\ isConnected' = FALSE
       /\ \A p \in MapRange(pendingRequests) :
            /\ promises'[p].state = "rejected"
            /\ promises'[p].by = "MCP connection closed"
            /\ p \notin timers'
       /\ \A p \in Promises \ MapRange(pendingRequests) :
            promises'[p] = promises[p]
       /\ (NeverConnected => UNCHANGED svcVars)]_vars

\* disconnect() has rejected two requests that were pending together.
C5_Witness ==
  \E p1 \in Promises : \E p2 \in Promises :
    /\ p1 # p2
    /\ promises[p1].by = "MCP connection closed"
    /\ promises[p2].by = "MCP connection closed"
    /\ process = NoProcess /\ ~isConnected
    /\ pendingRequests = EmptyMap

\* C11: the ids sendRequest was called with strictly increase in the order
\* of the calls and none exceeds requestId, over disconnect() and later
\* connect() calls too; every pendingRequests entry is filed under the id
\* of its own promise and every registered promise still pending has its
\* entry, so no sendRequest overwrote the entry of another request.
C11_IdsNeverRepeat ==
  /\ \A p1 \in Promises : \A p2 \in Promises :
       p1 < p2 => promises[p1].id < promises[p2].id
  /\ \A p \in Promises : promises[p].id <= requestId
  /\ \A id \in DOMAIN pendingRequests :
       promises[pendingRequests[id]].id = id
  /\ \A p \in Promises :
       (promises[p].state = "pending" /\ Registered(p)) =>
         /\ promises[p].id \in DOMAIN pendingRequests
         /\ pendingRequests[promises[p].id] = p

\* A request registered by a connect() that followed a disconnect().
C11_Witness ==
  \E p1 \in Promises : \E p2 \in Promises :
    /\ p1 < p2
    /\ promises[p1].by = "MCP connection closed"
    /\ promises[p2].state = "pending" /\ Registered(p2)
    /\ promises[p2].id \in DOMAIN pendingRequests

\* C13: every promise of sendRequest settles in the end: while a registered
\* one is pending its timer is armed, and (with or without an answer, with
\* the subprocess running or gone) pending leads to settled.
C13_EventuallySettles ==
  /\ [](\A p \in Promises :
          (promises[p].state = "pending" /\ Registered(p)) => p \in timers)
  /\ \A p \in 1..MaxRequests :
       (p \in Promises /\ promises[p].state = "pending")
         ~> (p \in Promises /\ promises[p].state # "pending")

\* The timer rejected a request whose subprocess had exited.
C13_Witness ==
  \E p \in Promises : \E q \in Procs :
    /\ promises[p].by = "MCP request timeout"
    /\ promises[p].id \in inbox[q]
    /\ procState[q] = "exited"
    /\ promises[p].id \notin DOMAIN pendingRequests

\* ------------------------------------------------- CoraLogixMCPConnection

Written(r) == requests[r].written

\* C4: once the subprocess has closed or disconnect() has run (proc is
\* null), no request that was written to it is still pending: the event
\* rejected every promise that was in flight.
C4_CloseRejectsInFlight ==
  proc = NoProcess =>
    \A r \in Requests : Written(r) => requests[r].state # "pending"

\* C7: for a sendMCPRequest call, however stdout is cut into chunks and
\* whatever complete messages for other ids come first: resolve/reject is
\* called at most once; a settlement by a message is by the message that
\* carries the request's own id, with that message's result or error; and
\* as soon as the chunk that completes that message has been delivered the
\* request is no longer pending.
C7_ChunkedResponseSettles ==
  \A r \in Requests :
    requests[r].kind = "mcp" =>
      /\ requests[r].settles <= 1
      /\ requests[r].by = "response" =>
           requests[r].respId = requests[r].id /\ requests[r].answered = "r"
      /\ requests[r].by = "remote error" =>
           requests[r].respId = requests[r].id /\ requests[r].answered = "e"
      /\ requests[r].answered # "" =>
           requests[r].state # "pending" /\ requests[r].settles = 1

\* A sendMCPRequest call resolved by its response, which arrived cut into
\* chunks and after a complete message for another id.
C7_Witness ==
  \E r \in Requests :
    /\ requests[r].kind = "mcp"
    /\ requests[r].by = "response"
    /\ requests[r].fragment
    /\ LET lines == NonBlank(SplitNL(requests[r].responseData))
       IN /\ Len(lines) >= 2
          /\ ParseOk(lines[1])
          /\ Parsed(lines[1]).id # requests[r].id

\* C8: while no request has failed (so that no call of initialize() is a
\* retry), at most one "initialize" request and at most one "tools/list"
\* request have been sent, however many callers initialize() has had.
C8_OneHandshake ==
  (\A r \in Requests : requests[r].state # "rejected") =>
    /\ Cardinality({r \in Requests :
                      Written(r) /\ requests[r].method = "initialize"}) <= 1
    /\ Cardinality({r \in Requests :
                      Written(r) /\ requests[r].method = "tools/list"}) <= 1

\* C9: every tools/call request a caller of sendMCPRequest has had written
\* to the subprocess was written when isInitialized was true.
C9_CallAfterInitialize ==
  \A r \in Requests :
    (requests[r].cont = "user" /\ Written(r)) => requests[r].initAtSend

\* C10: no two requests written to the subprocess carry the same id.
C10_UniqueRequestIds ==
  \A r1 \in Requests : \A r2 \in Requests :
    (r1 # r2 /\ Written(r1) /\ Written(r2))
      => requests[r1].id # requests[r2].id

\* C12: no request that is already settled has its 120-second timer still
\* armed: whatever settled it cancelled the timer.
C12_NoTimerAfterSettle ==
  \A r \in Requests :
    requests[r].state # "pending" => requests[r].timer # "armed"

\* ---- CoralogixMCPClient and CoraLogixMCPConnection: initialize()
\* The SDK calls `name` of call tk that ended in `state`.
CallsOf(tk, name, state) ==
  {c \in 1..Len(tk.calls) :
     tk.calls[c].call = name /\ tk.calls[c].state = state}

\* Call tk of CoralogixMCPClient went through connect() and listTools()
\* with both resolved.
CliCatalogFetched(tk) ==
  /\ CallsOf(tk, "connect", "resolved") # {}
  /\ CallsOf(tk, "listTools", "resolved") # {}

\* Request d of CoraLogixMCPConnection is the "docs_1" of a call of
\* initialize() whose "init_1" and "tools_1" both resolved.
ConnCatalogFetched(d) ==
  /\ d \in Requests /\ requests[d].cont = "docs"
  /\ LET t == requests[d].after IN
     /\ t \in Requests
     /\ requests[t].cont = "tools" /\ requests[t].state = "resolved"
     /\ LET i == requests[t].after IN
        /\ i \in Requests
        /\ requests[i].cont = "init" /\ requests[i].state = "resolved"

\* this.availableTools holds the result of a tools/list that resolved.
ConnToolsAssigned ==
  /\ availableTools \in Requests
  /\ requests[availableTools].cont = "tools"
  /\ requests[availableTools].state = "resolved"

CliToolsAssigned ==
  /\ cliAvailableTools \in Tasks
  /\ CallsOf(tasks[cliAvailableTools], "listTools", "resolved") # {}

\* C14: in both session classes isInitialized is true only after a call of
\* initialize() whose handshake and tools/list both succeeded, with
\* availableTools assigned from a tools/list result before the flag; the
\* step that sets the flag is the continuation of the docs fetch of such a
\* call, never of a call whose connect/handshake or tools/list failed.
C14_ReadyOnlyAfterCatalog ==
  /\ [](isInitialized =>
          /\ ConnToolsAssigned
          /\ \E d \in Requests :
                ConnCatalogFetched(d) /\ requests[d].state # "pending")
  /\ [](cliIsInitialized =>
          /\ CliToolsAssigned
          /\ \E t \in Tasks : CliCatalogFetched(tasks[t]))
  /\ [][(~isInitialized /\ isInitialized') =>
          /\ ConnToolsAssigned
          /\ connTasks # <<>> /\ ConnCatalogFetched(Head(connTasks))]_vars
  /\ [][(~cliIsInitialized /\ cliIsInitialized') =>
          /\ CliToolsAssigned
          /\ \E t \in Tasks :
                /\ tasks[t].pc = "i_docs" /\ tasks'[t].pc # "i_docs"
                /\ CliCatalogFetched(tasks[t])]_vars

\* The flag is set although another call of initialize() failed at its
\* handshake or its tools/list.
C14_Witness ==
  /\ isInitialized
  /\ \E r \in Requests :
        requests[r].cont \in {"init", "tools"} /\ requests[r].state = "rejected"

\* ---- CoralogixMCPClient: a failed initialize()
\* The names of the SDK calls of call tk, in order.
CallNames(tk) == [c \in 1..Len(tk.calls) |-> tk.calls[c].call]

IsPrefix(a, b) == Len(a) <= Len(b) /\ a = SubSeq(b, 1, Len(a))

\* C15: when connect() or listTools() rejects inside initialize(), the
\* call rejects with that very error and the step leaves isInitialized as
\* it was; a call of initialize() made while isInitialized is false is not
\* short-circuited: it goes through connect, tools/list and docs in that
\* order, each after the one before resolved, and resolves only after all
\* three.
C15_FailedInitializeRetries ==
  /\ [](\A t \in Tasks :
          LET tk == tasks[t] IN
          (tk.kind = "initialize" /\ ~tk.initAtCall) =>
            /\ IsPrefix(CallNames(tk), <<"connect", "listTools", "docs">>)
            /\ \A c \in 1..(Len(tk.calls) - 1) : tk.calls[c].state = "resolved"
            /\ tk.pc = "done" => tk.calls # <<>>
            /\ tk.result = "resolved" => Len(tk.calls) = 3
            /\ tk.result = "rejected" =>
                 /\ tk.calls[Len(tk.calls)].state = "rejected"
                 /\ tk.calls[Len(tk.calls)].call \in {"connect", "listTools"}
                 /\ tk.error = tk.calls[Len(tk.calls)].call)
  /\ [][\A t \in Tasks :
          (/\ tasks[t].pc \in {"c_conn", "i_tools"}
           /\ tasks'[t].calls[Len(tasks[t].calls)].state = "rejected") =>
            /\ tasks'[t].pc = "done" /\ tasks'[t].result = "rejected"
            /\ tasks'[t].error = tasks[t].calls[Len(tasks[t].calls)].call
            /\ cliIsInitialized' = cliIsInitialized
            /\ cliAvailableTools' = cliAvailableTools]_vars

\* initialize() failed at listTools(); a later initialize() ran the whole
\* sequence and resolved.
C15_Witness ==
  \E t1 \in Tasks : \E t2 \in Tasks :
    /\ t1 < t2
    /\ tasks[t1].kind = "initialize" /\ tasks[t1].error = "listTools"
    /\ tasks[t2].kind = "initialize" /\ ~tasks[t2].initAtCall
    /\ tasks[t2].result = "resolved"
    /\ CallNames(tasks[t2]) = <<"connect", "listTools", "docs">>

\* ---- CoralogixMCPClient and CoraLogixMCPConnection: the docs fetch
\* C16: when the fetch of read_dataprime_intro_docs fails (error response,
\* stderr error, 'error' event, timeout, rejected SDK call), the
\* continuation of initialize() sets isInitialized, leaves availableTools
\* (the fetched catalog) and dataprimeDocs as they were, and the call
\* resolves.
C16_DocsFailureIsSoft ==
  /\ [][(/\ connTasks # <<>>
          /\ requests[Head(connTasks)].cont = "docs"
          /\ requests[Head(connTasks)].state = "rejected"
          /\ connTasks' = Tail(connTasks)) =>
           /\ isInitialized'
           /\ ConnToolsAssigned /\ availableTools' = availableTools
           /\ dataprimeDocs' = dataprimeDocs]_vars
  /\ [](\A d \in Requests :
          (/\ requests[d].cont = "docs" /\ requests[d].state = "rejected"
           /\ \A k \in 1..Len(connTasks) : connTasks[k] # d) =>
            isInitialized /\ ConnToolsAssigned)
  /\ [][\A t \in Tasks :
          (/\ tasks[t].pc = "i_docs"
           /\ tasks'[t].calls[Len(tasks[t].calls)].state = "rejected") =>
            /\ cliIsInitialized'
            /\ CliToolsAssigned /\ cliAvailableTools' = cliAvailableTools
            /\ cliDataprimeDocs' = cliDataprimeDocs
            /\ tasks[t].kind = "initialize" =>
                 tasks'[t].pc = "done" /\ tasks'[t].result = "resolved"
            /\ tasks'[t].result # "rejected"]_vars
  /\ [](\A t \in Tasks :
          (tasks[t].kind = "initialize" /\ tasks[t].pc = "done"
           /\ CallsOf(tasks[t], "docs", "rejected") # {}) =>
            tasks[t].result = "resolved")

\* A fresh CoralogixMCPClient whose initialize() resolved although its
\* docs fetch was rejected: ready, catalog stored, no docs.
C16_Witness ==
  \E t \in Tasks :
    /\ tasks[t].kind = "initialize" /\ tasks[t].result = "resolved"
    /\ CallsOf(tasks[t], "docs", "rejected") # {}
    /\ cliIsInitialized
    /\ cliAvailableTools = t
    /\ cliDataprimeDocs = ""

\* ---- CoralogixMCPClient and CoraLogixMCPConnection: initialize() when ready
\* C17: a call of initialize() made while isInitialized is true returns at
\* once: it sends no "init_1" (and so no "tools_1" or "docs_1"), makes no
\* SDK call, creates no client or transport, and leaves availableTools,
\* dataprimeDocs and isInitialized unchanged.
C17_InitializeWhenReadyIsNoop ==
  /\ [](\A r \in Requests : requests[r].cont = "init" => ~requests[r].initAtSend)
  /\ [][(isInitialized /\ Len(requests') > Len(requests)) =>
          requests'[Len(requests')].cont # "init"]_vars
  /\ [][initReturned' # initReturned =>
          /\ isInitialized
          /\ UNCHANGED <<proc, procStatus, isInitialized, availableTools,
                         dataprimeDocs, requests, connTasks, unanswered>>]_vars
  /\ [](\A t \in Tasks :
          (tasks[t].kind = "initialize" /\ tasks[t].initAtCall) =>
            /\ tasks[t].calls = <<>>
            /\ tasks[t].pc = "done" /\ tasks[t].result = "resolved")
  /\ [][(/\ Len(tasks') > Len(tasks)
          /\ tasks'[Len(tasks')].kind = "initialize"
          /\ cliIsInitialized) =>
           UNCHANGED <<mcpClient, transport, clients, cliIsInitialized,
                       cliAvailableTools, cliDataprimeDocs>>]_vars

\* initialize() was called on a ready CoraLogixMCPConnection and returned.
C17_Witness ==
  /\ initReturned > 0
  /\ isInitialized
  /\ InitCalls = 1

\* ---- MCPClientService: sendRequest without a subprocess
\* C18: a sendRequest that finds this.process null creates a promise that
\* is rejected at once with 'MCP process not connected' and touches neither
\* pendingRequests nor the timers nor any subprocess's stdin; an entry is
\* added to pendingRequests only while this.process is a subprocess, and
\* this.process leaves null only by connect() spawning a new one.
C18_NoProcessRejects ==
  /\ [][Len(promises') > Len(promises) =>
          LET p == Len(promises') IN
          IF process' = NoProcess
          THEN /\ promises'[p].state = "rejected"
               /\ promises'[p].by = "MCP process not connected"
               /\ pendingRequests' = pendingRequests
               /\ timers' \subseteq timers
               /\ inbox' = inbox
          ELSE /\ promises'[p].state = "pending"
               /\ promises'[p].id \in DOMAIN pendingRequests'
               /\ promises'[p].id \in inbox'[process']]_vars
  /\ [](\A p \in Promises :
          promises[p].by = "MCP process not connected" =>
            /\ promises[p].state = "rejected"
            /\ promises[p].id \notin DOMAIN pendingRequests
            /\ p \notin timers
            /\ \A q \in Procs : promises[p].id \notin inbox[q])
  /\ [][(\E id \in DOMAIN pendingRequests' : id \notin DOMAIN pendingRequests)
          => process' # NoProcess]_vars
  /\ [][(process = NoProcess /\ process' # NoProcess) =>
          /\ process' \notin SpawnedProcs
          /\ procState'[process'] = "running"]_vars

\* executeQuery sent its request while this.process was null and
\* isConnected true (the subprocess exited, its answer to the handshake
\* arrived afterwards): the request was refused, nothing is registered.
C18_Witness ==
  \E p \in Promises :
    /\ promises[p].by = "MCP process not connected"
    /\ promises[p].method = "tools/call"
    /\ process = NoProcess /\ isConnected
    /\ pendingRequests = EmptyMap /\ timers = {}
    /\ \E q \in Procs : procState[q] = "exited"

\* ---- MCPClientService and CoraLogixMCPConnection: remote errors
\* The error member of a response as the server wrote it.
ErrorObject == [code |-> "code", message |-> "message"]

\* new Error(message): a message and no code.
JsError(message) == [code |-> "undefined", message |-> message]

\* handleResponse: pending.reject(new Error(response.error.message))
handleResponse_reject(error) == JsError(error.message)

\* onStdout: reject(new Error(`MCP Error: ${parsed.error.message || ...}`))
onStdout_reject(error) == JsError("MCP Error: " \o error.message)

\* What the caller of sendRequest catches from promise p.
SvcRejection(p) ==
  IF promises[p].by = "remote error"
  THEN handleResponse_reject(ErrorObject)
  ELSE JsError(promises[p].by)

\* What the caller of sendRawRequest/sendMCPRequest catches from request r.
ConnRejection(r) ==
  IF requests[r].by = "remote error"
  THEN onStdout_reject(ErrorObject)
  ELSE JsError(requests[r].by)

\* C19: a request the server answered with an error object is rejected
\* with a value that carries that object's code and its message unchanged,
\* in MCPClientService and in CoraLogixMCPConnection.
C19_RemoteErrorVerbatim ==
  /\ \A p \in Promises :
       promises[p].by = "remote error" =>
         /\ SvcRejection(p).code = ErrorObject.code
         /\ SvcRejection(p).message = ErrorObject.message
  /\ \A r \in Requests :
       requests[r].by = "remote error" =>
         /\ ConnRejection(r).code = ErrorObject.code
         /\ ConnRejection(r).message = ErrorObject.message

\* ---- POST /api/prompt: the status of a failed MCP call
\* A rejection message as its words.
Words(message) ==
  CASE message = "MCP Error: message" ->
         <<"MCP", "Error", ":", "message">>
    [] message = "MCP request timeout (120 seconds)" ->
         <<"MCP", "request", "timeout", "(120", "seconds)">>
    [] message = "Process is not connected or stdin not writable" ->
         <<"Process", "is", "not", "connected", "or", "stdin", "not",
           "writable">>
    [] message = "MCP Process Error" ->
         <<"MCP", "Process", "Error", ":", "Error", ":", "data">>
    [] message = "MCP request timeout" -> <<"MCP", "request", "timeout">>
    [] message = "MCP connection closed" -> <<"MCP", "connection", "closed">>
    [] message = "MCP process not connected" ->
         <<"MCP", "process", "not", "connected">>
    [] OTHER -> <<message>>

\* The catch block of router.post('/') for an error that is no ZodError.
PromptErrorResponse(message) ==
  LET w == Words(message) IN
  IF includes(w, <<"MCP", "Error">>) \/ includes(w, <<"timeout">>)
  THEN [status |-> 503, error |-> "MCP server error"]
  ELSE IF \/ includes(w, <<"Google">>) \/ includes(w, <<"Gemini">>)
          \/ includes(w, <<"LLM">>)
  THEN [status |-> 503, error |-> "LLM service error"]
  ELSE [status |-> 500, error |-> "Failed to execute prompt"]

\* The rejections that are a timeout, a lost or unavailable connection or
\* a remote error.
McpFailures ==
  {"MCP request timeout (120 seconds)", "MCP request timeout",
   "Process is not connected or stdin not writable",
   "MCP connection closed", "MCP process not connected",
   "remote error"}

\* C20: for every rejection of a tools/call that is a timeout, a lost or
\* unavailable connection or a remote error, the prompt route answers 503
\* 'MCP server error'; it answers 500 only for other rejections.
C20_McpFailuresAre503 ==
  /\ \A r \in Requests :
       (/\ requests[r].cont = "user" /\ requests[r].state = "rejected"
        /\ requests[r].by \in McpFailures) =>
         PromptErrorResponse(ConnRejection(r).message) =
           [status |-> 503, error |-> "MCP server error"]
  /\ \A p \in Promises :
       (/\ promises[p].method = "tools/call" /\ promises[p].state = "rejected"
        /\ promises[p].by \in McpFailures) =>
         PromptErrorResponse(SvcRejection(p).message) =
           [status |-> 503, error |-> "MCP server error"]

\* ---- CoraLogixMCPConnection: sendRawRequest and lines that are no JSON
\* The buffer of request r holds a complete line that parses and carries
\* the request's id.
OwnLineReceived(r) ==
  LET lines == NonBlank(SplitNL(requests[r].responseData)) IN
  \E i \in 1..Len(lines) :
    /\ ParseOk(lines[i])
    /\ Parsed(lines[i]).id = requests[r].id

\* C21: a sendRawRequest call is no longer pending once its listener has
\* received the complete response line carrying its id, whatever the
\* buffer received before that line, a non-empty line that is no JSON
\* included.
C21_RawSettlesDespiteBadLine ==
  \A r \in Requests :
    (requests[r].kind = "raw" /\ OwnLineReceived(r)) =>
      requests[r].state # "pending"

\* ---- CoraLogixMCPConnection: stderr
\* C22: a stderr chunk that contains 'Error:' and neither traffic marker
\* rejects every request that is listening; any other stderr chunk leaves
\* every request as it was (state, listeners, timer); and no request is
\* ever rejected as a process error by any other step.
C22_StderrSignalOnly ==
  /\ [][Len(stderrLog') > Len(stderrLog) =>
          LET data == stderrLog'[Len(stderrLog')]
              signal == /\ includes(data, <<"Error:">>)
                        /\ ~includes(data, <<"[Local->Remote]">>)
                        /\ ~includes(data, <<"[Remote->Local]">>)
          IN IF signal
             THEN \A r \in Requests :
                    IF requests[r].state = "pending" /\ requests[r].listening
                    THEN /\ requests'[r].state = "rejected"
                         /\ requests'[r].by = "MCP Process Error"
                         /\ ~requests'[r].listening
                    ELSE requests'[r] = requests[r]
             ELSE requests' = requests /\ connTasks' = connTasks]_vars
  /\ [][\A r \in Requests :
          (requests[r].state = "pending"
           /\ requests'[r].by = "MCP Process Error") =>
            Len(stderrLog') > Len(stderrLog)]_vars

\* An error line with a traffic marker left a request pending, and a plain
\* error line then rejected it.
C22_Witness ==
  /\ Len(stderrLog) = 2
  /\ includes(stderrLog[1], <<"Error:">>)
  /\ includes(stderrLog[1], <<"[Local->Remote]">>)
  /\ stderrLog[2] = <<"Error:", "boom">>
  /\ \E r \in Requests :
        requests[r].by = "MCP Process Error" /\ requests[r].timer = "armed"

\* ---- MCPClientService: concurrent calls
\* The handshake of running subprocess q is in flight: its 'initialize'
\* request is registered and still pending.
HandshakeInFlight(q) ==
  /\ procState[q] = "running"
  /\ \E p \in Promises :
        /\ promises[p].method = "initialize"
        /\ promises[p].state = "pending"
        /\ promises[p].id \in inbox[q]

\* C23: no step spawns a subprocess or replaces this.process while the
\* handshake of a running subprocess is still in flight, so that at most
\* one subprocess runs at a time.
C23_OneSubprocess ==
  /\ [][(\E q \in Procs : HandshakeInFlight(q)) =>
          /\ SpawnedProcs' = SpawnedProcs
          /\ process' \in {process, NoProcess}]_vars
  /\ [](Cardinality({q \in Procs : procState[q] = "running"}) <= 1)

\* Subprocess q has answered an 'initialize' request of this service, and
\* the answer has been handled.
HandshakeAnswered(q) ==
  \E p \in Promises :
    /\ promises[p].method = "initialize"
    /\ promises[p].id \in inbox[q]
    /\ promises[p].by \in {"response", "remote error"}

\* C24: every step that writes a tools/call request to a subprocess's
\* stdin writes it to a subprocess that has already answered this
\* service's 'initialize' request.
C24_CallAfterHandshake ==
  [][\A q \in Procs :
       \A p \in DOMAIN promises' :
         (/\ p \notin Promises
          /\ promises'[p].method = "tools/call"
          /\ promises'[p].id \in inbox'[q]) => HandshakeAnswered(q)]_vars

\* ---- CoralogixMCPClient: calls after close()
\* C25: a sendMCPRequest call that starts after close() or disconnect()
\* was invoked on a connected session finds isInitialized false, and its
\* tools/call is dispatched only after its own connect and tools/list, and
\* never on a client that is being or has been closed.
C25_NoDispatchAfterClose ==
  \A x \in Tasks : \A t \in Tasks :
    (/\ tasks[x].kind = "close" /\ tasks[x].calls # <<>>
     /\ x < t /\ tasks[t].kind = "sendMCPRequest") =>
      /\ ~tasks[t].initAtCall
      /\ \A c \in 1..Len(tasks[t].calls) :
           tasks[t].calls[c].call = "callTool" =>
             /\ CliCatalogFetched(tasks[t])
             /\ tasks[t].calls[c].client # tasks[x].client

\* ---- MCPClientService: the session and its subprocess
\* C26: the 'exit' of a subprocess that disconnect() killed leaves a
\* session that a later connect() established as it is: isConnected stays
\* true and this.process keeps referring to the new subprocess.
C26_StaleExitIgnored ==
  [][\A q \in Procs :
       (/\ procState[q] = "killed" /\ procState'[q] = "exited"
        /\ isConnected /\ process # NoProcess /\ process # q) =>
         /\ isConnected'
         /\ process' = process]_vars

\* C27: isConnected = true implies that this.process is not null.
C27_ConnectedHasProcess == isConnected => process # NoProcess

\* C28: when the continuation of connect() finds its handshake rejected by
\* an error response or by the timeout, the subprocess that call spawned
\* is afterwards not both running and referenced by this.process.
C28_FailedConnectReleases ==
  [][(/\ microtasks # <<>> /\ microtasks' = Tail(microtasks)
      /\ promises[Head(microtasks)].cont \in {"connect", "eq_connect"}
      /\ promises[Head(microtasks)].by \in
           {"remote error", "MCP request timeout"}) =>
       \A q \in Procs :
         promises[Head(microtasks)].id \in inbox[q] =>
           ~(process' = q /\ procState'[q] = "running")]_vars

\* ---- CoraLogixMCPConnection: listeners
\* C29: a request has its 'stdout', 'stderr' and 'error' listeners exactly
\* while its promise is pending, so the listeners are as many as the
\* promises not yet settled, whatever settled the others.
C29_NoListenerLeak ==
  /\ \A r \in Requests : requests[r].listening <=> requests[r].state = "pending"
  /\ Cardinality(Listening) =
       Cardinality({r \in Requests : requests[r].state = "pending"})

\* One request was rejected by its timer, one resolved by its response,
\* and one is pending and listening.
C29_Witness ==
  \E r1 \in Requests : \E r2 \in Requests : \E r3 \in Requests :
    /\ requests[r1].by = "MCP request timeout (120 seconds)"
    /\ requests[r2].by = "response"
    /\ requests[r3].state = "pending"
    /\ Listening = {r3}

\* ---- CoraLogixMCPConnection: the flag and the subprocess
\* C30: isMCPInitialized() = true implies that the subprocess is still
\* attached (proc is not null).
C30_InitializedHasProcess == isInitialized => proc # NoProcess

====
